---------------------------- MODULE Spec2Model ----------------------------
(***************************************************************************)
(* Model of five-five (src/src/main.rs): five five-letter words that       *)
(* together use 25 distinct letters.                                       *)
(*                                                                         *)
(* A u32 bit mask (Word.bitword, filter) is modelled as the set of its set *)
(* bit positions: `a & b` is a \cap b, `a | b` is a \cup b, `1 << n` is    *)
(* {n}, and the numeric order of two masks is decided by their highest     *)
(* differing bit.  Bytes are numbers 0..255.                               *)
(***************************************************************************)
EXTENDS Integers, Sequences, FiniteSets, TLC

VARIABLES
    build,              \* "debug" or "release": how the crate was compiled
    threads,            \* size of the rayon thread pool
    input,              \* the bytes of words_alpha.txt
    pc,                 \* position of main
    words,              \* main: words, the Vec<Word> load_words returned
    transform,          \* words_: transform, the rank of every letter
    transformed_words,  \* main: transformed_words, the 26 buckets
    rerun,              \* buckets of a second run of words_ on `words`
    phase,              \* solve: the bucket whose par_iter is running (25, 24)
    tasks,              \* solve: one root exploration per word of that bucket
    mutex,              \* output_mtx: 0 when unlocked, else the locking task
    output              \* the characters of solution.txt

vars == <<build, threads, input, pc, words, transform, transformed_words,
          rerun, phase, tasks, mutex, output>>

\* what solve and the tasks it runs only read
indexVars == <<build, threads, input, words, transform, transformed_words, rerun>>

---------------------------------------------------------------------------
(* Program constants *)

NumLetters == 26
WordLen == 5
NumWords == 5
LastSlot == 4
ByteA == 97
ByteZ == 122
Newline == 10
Space == 32
RootBucket == 25
SkipRootBucket == 24
U8 == 256
U32Bits == 32

Letters == 0 .. (NumLetters - 1)

(* Bounds of the model *)

MaxLines == 7
MaxThreads == 2

---------------------------------------------------------------------------
(* Helpers *)

Max(S) == CHOOSE x \in S : \A y \in S : y <= x

RECURSIVE Flatten(_)
Flatten(ss) == IF ss = <<>> THEN <<>> ELSE Head(ss) \o Flatten(Tail(ss))

\* slice::split / par_split: the maximal runs between separator elements
Split(s, sep) ==
    LET n == Len(s)
        cuts == {0} \cup {k \in 1 .. n : s[k] = sep} \cup {n + 1}
        starts == cuts \ {n + 1}
        start(i) == CHOOSE c \in starts :
                        Cardinality({d \in starts : d < c}) = i - 1
        stop(c) == CHOOSE d \in cuts :
                       d > c /\ \A e \in cuts : e > c => d <= e
    IN  [i \in 1 .. Cardinality(starts) |->
            SubSeq(s, start(i) + 1, stop(start(i)) - 1)]

\* a < b for two u32 values given as sets of bit positions
MaskLess(a, b) ==
    /\ a # b
    /\ Max((a \ b) \cup (b \ a)) \in b

\* the sequence <<f[1], ..., f[n]>>, with its elements evaluated
RECURSIVE TupFrom(_, _, _)
TupFrom(f, k, n) == IF k > n THEN <<>> ELSE <<f[k]>> \o TupFrom(f, k + 1, n)

Tup(f, n) == TupFrom(f, 1, n)

Reverse(s) == Tup([k \in 1 .. Len(s) |-> s[Len(s) + 1 - k]], Len(s))

\* sort_unstable_by_key: the result is ordered by key; the order of elements
\* with equal keys is not specified, here decided by the rank function `tie`
\* over the positions of s.  below[i] is the number of elements of s whose
\* key is less than the key of s[i].
SortUnstable(s, below, tie) ==
    LET n == Len(s)
        code == Tup([i \in 1 .. n |-> below[i] * (n + 1) + tie[i]], n)
        pos == Tup([i \in 1 .. n |->
                       1 + Cardinality({j \in 1 .. n : code[j] < code[i]})], n)
    IN  Tup([p \in 1 .. n |-> s[CHOOSE i \in 1 .. n : pos[i] = p]], n)

\* orders of equal keys an unstable sort of n elements may leave
SortTies(n) == { [i \in 1 .. n |-> i], [i \in 1 .. n |-> n + 1 - i] }

LetterScramble == [i \in 1 .. NumLetters |-> ((7 * i + 3) % NumLetters) + 1]

LetterTies == SortTies(NumLetters) \cup {LetterScramble}

---------------------------------------------------------------------------
(* Word *)

DefaultWord == [bitword |-> {}, bytes |-> [k \in 1 .. WordLen |-> 0]]

None == [tag |-> "None", val |-> DefaultWord]
Some(w) == [tag |-> "Some", val |-> w]
Panic == [tag |-> "Panic", val |-> DefaultWord]

IsLower(b) == ByteA <= b /\ b <= ByteZ

\* letter - b'a' on u8: wraps when overflow checks are off
SubA(letter) == (letter - ByteA + U8) % U8

\* 1 << offset on u32: the shift amount is masked when overflow checks are off
Shl1(offset) == {offset % U32Bits}

\* the for loop of Word::new over bytes[k..], acc = [bitword, len]
RECURSIVE NewLoop(_, _, _)
NewLoop(bytes, k, acc) ==
    IF k > Len(bytes) THEN acc
    ELSE LET bit == Shl1(SubA(bytes[k]))
         IN  IF acc.bitword \cap bit = {}
             THEN NewLoop(bytes, k + 1,
                          [bitword |-> acc.bitword \cup bit, len |-> acc.len + 1])
             ELSE NewLoop(bytes, k + 1, acc)

WordNew(bytes, bld) ==
    IF Len(bytes) # WordLen THEN None
    ELSE IF bld = "debug" /\ \E k \in 1 .. WordLen : ~IsLower(bytes[k]) THEN Panic
    ELSE LET r == NewLoop(bytes, 1, [bitword |-> {}, len |-> 0])
         IN  IF r.len = WordLen
             THEN Some([bitword |-> r.bitword, bytes |-> bytes])
             ELSE None

\* Word::transform: (msl, word with the mask over rank positions)
WordTransform(w, t) ==
    LET bw == {t[SubA(w.bytes[k])] : k \in 1 .. WordLen}
    IN  [msl |-> Max(bw), word |-> [bitword |-> bw, bytes |-> w.bytes]]

\* Display for Word: String::from_utf8_lossy(&self.bytes)
ReplacementChar == 65533
Display(w) == [k \in 1 .. WordLen |->
                  IF w.bytes[k] < 128 THEN w.bytes[k] ELSE ReplacementChar]

---------------------------------------------------------------------------
(* load_words *)

LinesOf(bytes) == Split(bytes, Newline)

LoadResults(bytes, bld) ==
    LET ls == LinesOf(bytes)
    IN  Tup([k \in 1 .. Len(ls) |-> WordNew(ls[k], bld)], Len(ls))

IsSome(r) == r.tag = "Some"

load_words(bytes, bld) ==
    LET rs == LoadResults(bytes, bld)
    IN  IF \E k \in 1 .. Len(rs) : rs[k].tag = "Panic" THEN Panic
        ELSE LET kept == SelectSeq(rs, IsSome)
             IN  Some([k \in 1 .. Len(kept) |-> kept[k].val])

---------------------------------------------------------------------------
(* words_ *)

WordKeyLess(a, b) == MaskLess(a.bitword, b.bitword)

\* faulty SortWords: the words are left in input order
SortWordsNone(ws, tie) == ws

\* for every word, the number of words with a smaller bitword
WordsBelow(ws) ==
    Tup([i \in 1 .. Len(ws) |->
            Cardinality({j \in 1 .. Len(ws) : WordKeyLess(ws[j], ws[i])})], Len(ws))

SortWords(ws, tie) == SortUnstable(ws, WordsBelow(ws), tie)

\* Vec::dedup_by_key: of each run of consecutive equal keys the first stays
RECURSIVE DedupFrom(_, _)
DedupFrom(ws, k) ==
    IF k > Len(ws) THEN <<>>
    ELSE IF k > 1 /\ ws[k].bitword = ws[k - 1].bitword THEN DedupFrom(ws, k + 1)
    ELSE <<ws[k]>> \o DedupFrom(ws, k + 1)

Dedup(ws) == DedupFrom(ws, 1)

\* freqs[(b - b'a') as usize] += 1 indexes an array of 26
FreqInRange(ws) ==
    \A k \in 1 .. Len(ws) : \A j \in 1 .. WordLen : SubA(ws[k].bytes[j]) \in Letters

\* freqs, as the sequence freqs[0], ..., freqs[25]
Freqs(ws) ==
    Tup([l \in 1 .. NumLetters |->
            Cardinality({<<k, j>> \in (1 .. Len(ws)) \X (1 .. WordLen) :
                            SubA(ws[k].bytes[j]) = l - 1})], NumLetters)

PairKeyLess(a, b) == a[2] < b[2]

\* for every pair, the number of pairs with a smaller second component
PairsBelow(ps) ==
    Tup([i \in 1 .. Len(ps) |->
            Cardinality({j \in 1 .. Len(ps) : PairKeyLess(ps[j], ps[i])})], Len(ps))

\* the iterator chain that builds `transform`
TransformOf(freqs, tie) ==
    LET enumerated == Tup([k \in 1 .. NumLetters |-> <<k - 1, freqs[k]>>], NumLetters)
        ascending == SortUnstable(enumerated, PairsBelow(enumerated), tie)
        mostFirst == Reverse(ascending)
        letters == Tup([k \in 1 .. NumLetters |-> mostFirst[k][1]], NumLetters)
        ranked == Tup([k \in 1 .. NumLetters |-> <<k - 1, letters[k]>>], NumLetters)
        byLetter == SortUnstable(ranked, PairsBelow(ranked),
                                 [i \in 1 .. NumLetters |-> i])
    IN  [l \in Letters |-> byLetter[l + 1][1]]

\* the loop that pushes every word to indexed_words[msl]
RECURSIVE PushAll(_, _, _, _)
PushAll(ws, k, t, idx) ==
    IF k > Len(ws) THEN idx
    ELSE LET r == WordTransform(ws[k], t)
         IN  PushAll(ws, k + 1, t,
                     [idx EXCEPT ![r.msl] = Append(@, r.word)])

EmptyIndex == [l \in Letters |-> <<>>]

words_(ws, wtie, ltie) ==
    LET deduped == Dedup(SortWords(ws, wtie))
    IN  IF ~FreqInRange(deduped) THEN Panic
        ELSE LET t == TransformOf(Freqs(deduped), ltie)
             IN  Some([transform |-> t,
                       indexed_words |-> PushAll(deduped, 1, t, EmptyIndex)])

---------------------------------------------------------------------------
(* solve14 *)

next_free_letter(filter) ==
    LET free == Letters \ filter IN IF free = {} THEN {} ELSE {Max(free)}

\* faulty Disjoint: the test only rejects a word that is wholly covered
DisjointPartly(bitword, filter) == bitword \cap filter # bitword

\* word.bitword & filter == 0
Disjoint(bitword, filter) == bitword \cap filter = {}

\* faulty SkipAllowed: the skip branch is never taken
SkipNever(skipped) == FALSE

\* if !skipped
SkipAllowed(skipped) == ~skipped

\* the for loop's step to the next word of the bucket
NextWord(k) == k + 1

\* Mutex::new: the mutex starts unlocked
Unlocked == 0

\* faulty CanLock: the lock is granted while another task holds it
CanLockAlways(m) == TRUE

\* output.lock(): blocks while another task holds the mutex
CanLock(m) == m = Unlocked

\* faulty Dropped: the guard outlives the if block, the mutex stays locked
KeptLocked(t) == t

\* the value of the mutex once task t has dropped its guard
Dropped(t) == Unlocked

\* a call solve14(words, skipped, filter, output, solution, i) that got past
\* next_free_letter(filter).unwrap()
Frame(a) ==
    [skipped |-> a.skipped, filter |-> a.filter, i |-> a.i,
     letter |-> Max(next_free_letter(a.filter)), k |-> 1, at |-> "loop"]

\* the arguments of the recursive call of the consume branch
ConsumeArgs(f, word) ==
    [skipped |-> f.skipped, filter |-> f.filter \cup word.bitword, i |-> f.i + 1]

\* faulty SkipArgs: the skip call passes `skipped` on unchanged
SkipArgsUnmarked(f) ==
    [skipped |-> f.skipped, filter |-> f.filter \cup {f.letter}, i |-> f.i]

\* the arguments of the recursive call of the skip branch
SkipArgs(f) ==
    [skipped |-> TRUE, filter |-> f.filter \cup {f.letter}, i |-> f.i]

\* the arguments of the first call, made by solve for a word of bucket ph
RootArgs(ph, word) ==
    IF ph = RootBucket
    THEN [skipped |-> FALSE, filter |-> word.bitword, i |-> 1]
    ELSE [skipped |-> TRUE, filter |-> word.bitword \cup {RootBucket}, i |-> 1]

\* the pieces writeln! hands to the file, one write each
Pieces(solution, word) ==
    << Display(solution[1]), <<Space>>, Display(solution[2]), <<Space>>,
       Display(solution[3]), <<Space>>, Display(solution[4]), <<Space>>,
       Display(word), <<Newline>> >>

NumPieces == Len(Pieces([k \in 1 .. NumWords |-> DefaultWord], DefaultWord))

DefaultSolution == [k \in 1 .. NumWords |-> DefaultWord]

IdleTask == [st |-> "idle", stack |-> <<>>, solution |-> DefaultSolution, wpos |-> 0]

---------------------------------------------------------------------------
(* Inputs *)

IndexPool ==
    <<
       <<98, 114, 101, 97, 100>>,           \* 'bread'
       <<97, 112, 112, 108, 101>>,          \* 'apple'
       <<103, 104, 111, 115, 116>>,         \* 'ghost'
       <<103, 104, 48, 115, 116>>,          \* 'gh0st'
       <<97, 98>>,                          \* 'ab'
       <<98, 101, 97, 114, 100>>,           \* 'beard'
       <<97, 98, 99, 100, 101, 13>>,        \* 'abcde\r'
       <<97, 98, 99, 100, 101>>,            \* 'abcde'
       <<103, 104, 111, 115, 116, 115>>     \* 'ghosts'
    >>

MainPool ==
    <<
       <<97, 98, 99, 100, 101>>,            \* 'abcde'
       <<102, 103, 104, 105, 106>>,         \* 'fghij'
       <<107, 108, 109, 110, 111>>,         \* 'klmno'
       <<101, 100, 99, 98, 97>>,            \* 'edcba'
       <<112, 113, 114, 115, 116>>,         \* 'pqrst'
       <<117, 118, 119, 120, 121>>,         \* 'uvwxy'
       <<118, 119, 120, 121, 122>>,         \* 'vwxyz'
       <<97, 102, 107, 112, 117>>           \* 'afkpu'
    >>

ConcPool ==
    <<
       <<97, 98, 99, 100, 101>>,            \* 'abcde'
       <<102, 103, 104, 105, 106>>,         \* 'fghij'
       <<107, 108, 109, 110, 111>>,         \* 'klmno'
       <<112, 113, 114, 115, 116>>,         \* 'pqrst'
       <<117, 118, 119, 120, 121>>,         \* 'uvwxy'
       <<98, 99, 100, 101, 102>>,           \* 'bcdef'
       <<103, 104, 105, 106, 107>>,         \* 'ghijk'
       <<108, 109, 110, 111, 112>>,         \* 'lmnop'
       <<113, 114, 115, 116, 117>>,         \* 'qrstu'
       <<118, 119, 120, 121, 97>>           \* 'vwxya'
    >>

ConcExtra ==
    <<
       <<118, 119, 120, 121, 122>>          \* 'vwxyz'
    >>

\* the lines of pool at the positions in S, in the pool's order
RECURSIVE Pick(_, _, _)
Pick(pool, S, k) ==
    IF k > Len(pool) THEN <<>>
    ELSE (IF k \in S THEN <<pool[k]>> ELSE <<>>) \o Pick(pool, S, k + 1)

\* a file whose lines each end with a newline
FileOf(lines) == Flatten([k \in 1 .. Len(lines) |-> Append(lines[k], Newline)])

Files(pool, maxLines) ==
    { FileOf(Pick(pool, S, 1)) :
        S \in {T \in SUBSET (1 .. Len(pool)) : Cardinality(T) <= maxLines} }

---------------------------------------------------------------------------
(* State machine *)

InitWith(files) ==
    /\ build \in {"debug", "release"}
    /\ threads = MaxThreads
    /\ input \in files
    /\ pc = "start"
    /\ words = <<>>
    /\ transform = <<>>
    /\ transformed_words = <<>>
    /\ rerun = <<>>
    /\ phase = RootBucket
    /\ tasks = <<>>
    /\ mutex = Unlocked
    /\ output = <<>>

Init == InitWith(Files(MainPool, MaxLines))

InitIndex == InitWith(Files(IndexPool, MaxLines))

InitConc == InitWith({FileOf(ConcPool), FileOf(ConcPool \o ConcExtra)})

\* main: let words = load_words("words_alpha.txt")?
LoadWords ==
    /\ pc = "start"
    /\ LET r == load_words(input, build)
       IN  IF r.tag = "Panic"
           THEN /\ pc' = "panic"
                /\ UNCHANGED words
           ELSE /\ pc' = "loaded"
                /\ words' = r.val
    /\ UNCHANGED <<build, threads, input, transform, transformed_words, rerun,
                   phase, tasks, mutex, output>>

\* main: let transformed_words = words_(words)
Words_ ==
    /\ pc = "loaded"
    /\ \E wtie \in SortTies(Len(words)), ltie \in LetterTies :
          LET r == words_(words, wtie, ltie)
          IN  IF r.tag = "Panic"
              THEN /\ pc' = "panic"
                   /\ UNCHANGED <<transform, transformed_words>>
              ELSE /\ pc' = "indexed"
                   /\ transform' = r.val.transform
                   /\ transformed_words' = r.val.indexed_words
    /\ UNCHANGED <<build, threads, input, words, rerun, phase, tasks, mutex,
                   output>>

\* the indexer run a second time on the same words
WordsAgain ==
    /\ pc = "indexed"
    /\ \E wtie \in SortTies(Len(words)), ltie \in LetterTies :
          LET r == words_(words, wtie, ltie)
          IN  /\ r.tag = "Some"
              /\ rerun' = r.val.indexed_words
    /\ pc' = "reindexed"
    /\ UNCHANGED <<build, threads, input, words, transform, transformed_words,
                   phase, tasks, mutex, output>>

Bucket(l) == transformed_words[l]

TasksFor(l) == [t \in 1 .. Len(Bucket(l)) |-> IdleTask]

\* main: File::create, then solve creates the mutex and iterates words[25]
Solve ==
    /\ pc = "indexed"
    /\ pc' = "solve"
    /\ phase' = RootBucket
    /\ tasks' = TasksFor(RootBucket)
    /\ mutex' = Unlocked
    /\ output' = <<>>
    /\ UNCHANGED indexVars

Running == {t \in 1 .. Len(tasks) : tasks[t].st = "run"}

AllDone == \A t \in 1 .. Len(tasks) : tasks[t].st = "done"

\* a call of solve14 with arguments a, on top of `stack`: its unwrap panics
\* when the filter leaves no letter free
Call(t, stack, solution, a) ==
    IF next_free_letter(a.filter) = {}
    THEN /\ pc' = "panic"
         /\ tasks' = [tasks EXCEPT ![t].st = "panic"]
    ELSE /\ pc' = pc
         /\ tasks' = [tasks EXCEPT ![t] =
                        [st |-> "run", stack |-> Append(stack, Frame(a)),
                         solution |-> solution, wpos |-> 0]]

\* the return of the top call of task t, whose stack was `stack`
Pop(t, stack) ==
    LET rest == SubSeq(stack, 1, Len(stack) - 1)
    IN  tasks' = [tasks EXCEPT ![t].stack = rest,
                               ![t].st = IF rest = <<>> THEN "done" ELSE "run"]

\* the closure of par_iter().for_each for the t-th word of the bucket
Spawn(t) ==
    /\ pc = "solve"
    /\ tasks[t].st = "idle"
    /\ Cardinality(Running) < threads
    /\ LET word == Bucket(phase)[t]
       IN  Call(t, <<>>, [DefaultSolution EXCEPT ![1] = word], RootArgs(phase, word))
    /\ UNCHANGED <<indexVars, phase, mutex, output>>

Top(t) == tasks[t].stack[Len(tasks[t].stack)]

Active(t) == pc = "solve" /\ tasks[t].st = "run"

WithTop(t, f) == [tasks[t].stack EXCEPT ![Len(tasks[t].stack)] = f]

\* one iteration of either for loop that does not write: the word is
\* rejected, or placed in solution[i] and solve14 called for the next slot
Consume(t) ==
    /\ Active(t)
    /\ LET f == Top(t) IN
       /\ f.at = "loop"
       /\ f.k <= Len(Bucket(f.letter))
       /\ LET word == Bucket(f.letter)[f.k] IN
          /\ ~(Disjoint(word.bitword, f.filter) /\ f.i = LastSlot)
          /\ IF ~Disjoint(word.bitword, f.filter)
             THEN /\ tasks' = [tasks EXCEPT ![t].stack =
                                  WithTop(t, [f EXCEPT !.k = NextWord(f.k)])]
                  /\ pc' = pc
             ELSE Call(t, WithTop(t, [f EXCEPT !.k = NextWord(f.k)]),
                       [tasks[t].solution EXCEPT ![f.i + 1] = word],
                       ConsumeArgs(f, word))
    /\ UNCHANGED <<indexVars, phase, mutex, output>>

\* i == 4 and the word fits: let mut file = output.lock().unwrap()
Lock(t) ==
    /\ Active(t)
    /\ LET f == Top(t) IN
       /\ f.at = "loop"
       /\ f.k <= Len(Bucket(f.letter))
       /\ Disjoint(Bucket(f.letter)[f.k].bitword, f.filter)
       /\ f.i = LastSlot
       /\ CanLock(mutex)
       /\ tasks' = [tasks EXCEPT ![t].stack = WithTop(t, [f EXCEPT !.at = "write"]),
                                 ![t].wpos = 0]
    /\ mutex' = t
    /\ UNCHANGED <<pc, indexVars, phase, output>>

\* writeln!: the next piece of the line goes to the file
Write(t) ==
    /\ Active(t)
    /\ LET f == Top(t) IN
       /\ f.at = "write"
       /\ tasks[t].wpos < NumPieces
       /\ output' = output \o
                      Pieces(tasks[t].solution, Bucket(f.letter)[f.k])[tasks[t].wpos + 1]
    /\ tasks' = [tasks EXCEPT ![t].wpos = @ + 1]
    /\ UNCHANGED <<pc, indexVars, phase, mutex>>

\* the guard `file` is dropped at the end of the if block
Unlock(t) ==
    /\ Active(t)
    /\ LET f == Top(t) IN
       /\ f.at = "write"
       /\ tasks[t].wpos = NumPieces
       /\ tasks' = [tasks EXCEPT ![t].stack =
                       WithTop(t, [f EXCEPT !.at = "loop", !.k = NextWord(f.k)])]
    /\ mutex' = Dropped(t)
    /\ UNCHANGED <<pc, indexVars, phase, output>>

\* after the loop: the skip branch's call when !skipped, else the return
LoopEnd(t) ==
    /\ Active(t)
    /\ LET f == Top(t) IN
       /\ f.at = "loop"
       /\ f.k > Len(Bucket(f.letter))
       /\ IF SkipAllowed(f.skipped)
          THEN Call(t, WithTop(t, [f EXCEPT !.at = "ret"]), tasks[t].solution,
                    SkipArgs(f))
          ELSE /\ Pop(t, tasks[t].stack)
               /\ pc' = pc
    /\ UNCHANGED <<indexVars, phase, mutex, output>>

\* the return of a call whose skip branch has returned
Return(t) ==
    /\ Active(t)
    /\ Top(t).at = "ret"
    /\ Pop(t, tasks[t].stack)
    /\ UNCHANGED <<pc, indexVars, phase, mutex, output>>

\* words[25].par_iter().for_each has returned: words[24].par_iter()
NextPhase ==
    /\ pc = "solve"
    /\ phase = RootBucket
    /\ AllDone
    /\ phase' = SkipRootBucket
    /\ tasks' = TasksFor(SkipRootBucket)
    /\ UNCHANGED <<pc, indexVars, mutex, output>>

\* words[24].par_iter().for_each has returned: solve returns
Finish ==
    /\ pc = "solve"
    /\ phase = SkipRootBucket
    /\ AllDone
    /\ pc' = "done"
    /\ UNCHANGED <<indexVars, phase, tasks, mutex, output>>

TaskIds == 1 .. Len(tasks)

Next ==
    \/ LoadWords
    \/ Words_
    \/ Solve
    \/ \E t \in TaskIds : Spawn(t)
    \/ \E t \in TaskIds : Consume(t)
    \/ \E t \in TaskIds : Lock(t)
    \/ \E t \in TaskIds : Write(t)
    \/ \E t \in TaskIds : Unlock(t)
    \/ \E t \in TaskIds : LoopEnd(t)
    \/ \E t \in TaskIds : Return(t)
    \/ NextPhase
    \/ Finish

NextIndex ==
    \/ LoadWords
    \/ Words_
    \/ WordsAgain

Spec == Init /\ [][Next]_vars

\* the steps of solve and of its tasks
SolveStep ==
    \/ Solve
    \/ \E t \in TaskIds : Spawn(t) \/ Consume(t) \/ Lock(t) \/ Write(t)
                            \/ Unlock(t) \/ LoopEnd(t) \/ Return(t)
    \/ NextPhase
    \/ Finish

\* main calls solve, and rayon's workers keep running the tasks they hold
FairSpec == Init /\ [][Next]_vars /\ WF_vars(SolveStep)

SpecIndex == InitIndex /\ [][NextIndex]_vars

SpecConc == InitConc /\ [][Next]_vars

---------------------------------------------------------------------------
(* What the properties speak about *)

\* the words of all buckets of an index, bucket 0 first
AllWords(idx) == Flatten(Tup([k \in 1 .. NumLetters |-> idx[k - 1]], NumLetters))

Retained == AllWords(transformed_words)

Range(s) == {s[k] : k \in 1 .. Len(s)}

\* the lines of solution.txt that are complete, and what follows the last newline
OutSegments == Split(output, Newline)
OutLines == SubSeq(OutSegments, 1, Len(OutSegments) - 1)

LineWords(line) == Split(line, Space)

IsWordText(cs) == Len(cs) = WordLen /\ \A k \in 1 .. Len(cs) : IsLower(cs[k])

WellFormedLine(line) ==
    LET ws == LineWords(line)
    IN  /\ Len(ws) = NumWords
        /\ \A k \in 1 .. NumWords : IsWordText(ws[k])

\* the complete lines, each as the set of its words
LineSets(lines) == {Range(LineWords(lines[n])) : n \in 1 .. Len(lines)}

PairwiseDisjoint(sets) ==
    \A i, j \in 1 .. Len(sets) : i < j => sets[i] \cap sets[j] = {}

\* the 5-subsets of the retained words with pairwise disjoint masks
Covers ==
    { S \in SUBSET Range(Retained) :
        /\ Cardinality(S) = NumWords
        /\ \A v, w \in S : v # w => v.bitword \cap w.bitword = {} }

CoverText(S) == {Display(w) : w \in S}

ValidLine(bytes) ==
    /\ Len(bytes) = WordLen
    /\ \A k \in 1 .. Len(bytes) : IsLower(bytes[k])
    /\ Cardinality(Range(bytes)) = WordLen

Depth(t) == Len(tasks[t].stack)

---------------------------------------------------------------------------
(* Claims *)

\* C1: every line written to the output consists of five words whose letter
\* sets are pairwise disjoint and together hold exactly 25 distinct letters.
C1_CoverValidity ==
    LET lines == OutLines
    IN  \A n \in 1 .. Len(lines) :
            LET ws == LineWords(lines[n])
                sets == Tup([k \in 1 .. Len(ws) |-> Range(ws[k])], Len(ws))
            IN  /\ Len(ws) = NumWords
                /\ \A k \in 1 .. NumWords : IsWordText(ws[k])
                /\ PairwiseDisjoint(sets)
                /\ Cardinality(UNION Range(sets)) = NumLetters - 1

C1_Witness == pc = "done" /\ Len(OutLines) >= 2

\* C2: when solve has returned, the output lines, read as sets of five words,
\* are exactly the 5-subsets of the retained words with pairwise disjoint
\* masks, and no cover is written twice.
C2_Complete ==
    pc = "done" =>
        LET lines == OutLines
            covers == Covers
        IN  /\ \A n \in 1 .. Len(lines) : WellFormedLine(lines[n])
            /\ LineSets(lines) = {CoverText(S) : S \in covers}
            /\ Len(lines) = Cardinality(covers)

\* a finished run with a cover that uses the rank-25 letter (a bucket[25] root)
\* and a cover that leaves it out (a bucket[24] root)
C2_Witness ==
    /\ pc = "done"
    /\ \E S \in Covers : RootBucket \in UNION {w.bitword : w \in S}
    /\ \E S \in Covers : RootBucket \notin UNION {w.bitword : w \in S}
    /\ Len(OutLines) = Cardinality(Covers)

\* C3: a Word is constructed exactly for the lines of 5 pairwise distinct
\* lowercase letters; every other line is dropped without an abort.
C3_SilentFilter ==
    pc # "start" =>
        /\ pc # "panic"
        /\ LET valid == SelectSeq(LinesOf(input), ValidLine)
           IN  /\ Len(words) = Len(valid)
               /\ \A k \in 1 .. Len(words) : words[k].bytes = valid[k]

\* a line without its trailing carriage return (byte 13), if it has one
TrimCR(line) ==
    IF line # <<>> /\ line[Len(line)] = 13
    THEN SubSeq(line, 1, Len(line) - 1) ELSE line

\* C4: a trailing carriage return is trimmed before the acceptance test, so
\* the loaded words are those of the same file without the carriage returns.
C4_TrimCR ==
    pc = "loaded" =>
        LET ls == LinesOf(input)
            trimmed == Tup([k \in 1 .. Len(ls) |-> WordNew(TrimCR(ls[k]), build)], Len(ls))
            kept == SelectSeq(trimmed, IsSome)
        IN  words = [k \in 1 .. Len(kept) |-> kept[k].val]

\* C5: after words_, every letter set of the parsed words is kept by exactly
\* one word of the index, and no two words of the index have equal masks.
C5_OnePerLetterSet ==
    pc = "indexed" =>
        /\ \A i, j \in 1 .. Len(Retained) :
              i # j => /\ Retained[i].bitword # Retained[j].bitword
                       /\ Range(Retained[i].bytes) # Range(Retained[j].bytes)
        /\ {Range(w.bytes) : w \in Range(Retained)}
              = {Range(w.bytes) : w \in Range(words)}

\* anagrams were loaded with another word between them, and were collapsed
C5_Witness ==
    /\ pc = "indexed"
    /\ Len(Retained) < Len(words)
    /\ \E i, j \in 1 .. Len(words) :
          /\ i + 1 < j
          /\ words[i].bitword = words[j].bitword

\* C6: the ranks are a permutation of 0..25, a strictly rarer letter has a
\* strictly higher rank, and letters of equal frequency are ranked in letter
\* order, the same way for every tie.
C6_RankOrder ==
    pc = "indexed" =>
        LET freqs == Freqs(Retained)
            Tied(a, b) == a < b /\ freqs[a + 1] = freqs[b + 1]
        IN  /\ {transform[l] : l \in Letters} = Letters
            /\ \A a, b \in Letters :
                  freqs[a + 1] < freqs[b + 1] => transform[a] > transform[b]
            /\ \/ \A a, b \in Letters : Tied(a, b) => transform[a] < transform[b]
               \/ \A a, b \in Letters : Tied(a, b) => transform[a] > transform[b]

\* C7: a second run of the indexer on the same words gives the same buckets,
\* and of every anagram group the first word in input order survives.
C7_Idempotent ==
    pc = "reindexed" =>
        /\ \A l \in Letters : Range(transformed_words[l]) = Range(rerun[l])
        /\ \A w \in Range(Retained) :
              \E k \in 1 .. Len(words) :
                  /\ words[k].bytes = w.bytes
                  /\ \A j \in 1 .. (k - 1) : words[j].bitword # words[k].bitword

\* C8: with root explorations running concurrently the output holds whole
\* lines only: what follows the last newline is the part of its line that
\* the task holding the mutex has written so far, a task writes only while
\* it holds the mutex, and at the end no line is missing.
C8_WholeLines ==
    LET segs == OutSegments
        lines == SubSeq(segs, 1, Len(segs) - 1)
        partial == segs[Len(segs)]
    IN  /\ \A n \in 1 .. Len(lines) : WellFormedLine(lines[n])
        /\ \A t \in TaskIds :
              (pc = "solve" /\ tasks[t].st = "run" /\ Top(t).at = "write")
                  => mutex = t
        /\ IF mutex = Unlocked
           THEN partial = <<>>
           ELSE LET f == Top(mutex)
                    pieces == Pieces(tasks[mutex].solution, Bucket(f.letter)[f.k])
                IN  /\ f.at = "write"
                    /\ partial = IF tasks[mutex].wpos = NumPieces THEN <<>>
                                 ELSE Flatten(SubSeq(pieces, 1, tasks[mutex].wpos))
        /\ pc = "done" =>
              LET covers == Covers
              IN  /\ LineSets(lines) = {CoverText(S) : S \in covers}
                  /\ Len(lines) = Cardinality(covers)

\* one task is in the middle of its line while another waits for the mutex
C8_Witness ==
    /\ pc = "solve"
    /\ \E t, u \in TaskIds :
          /\ t # u
          /\ tasks[t].st = "run" /\ tasks[u].st = "run"
          /\ Top(t).at = "write" /\ tasks[t].wpos = 3
          /\ LET f == Top(u)
             IN  /\ f.at = "loop" /\ f.i = LastSlot
                 /\ f.k <= Len(Bucket(f.letter))
                 /\ Disjoint(Bucket(f.letter)[f.k].bitword, f.filter)

\* C9: once the index is built solve returns; no call stack is deeper than
\* 4 word placements and one skip call; a dictionary of fewer than 5 words
\* or without a cover ends with an empty output.
C9_Terminates ==
    /\ (pc = "indexed") ~> (pc = "done")
    /\ [](\A t \in TaskIds : Depth(t) <= LastSlot + 1)
    /\ []((pc = "done" /\ (Len(words) < NumWords \/ Covers = {})) => output = <<>>)

\* solve has returned for a dictionary of five or more words without a cover
C9_Witness ==
    /\ pc = "done"
    /\ Len(Retained) >= NumWords
    /\ Covers = {}
    /\ output = <<>>

\* C10: in every call of solve14 the filter has 5*i bits, one more once the
\* skip is used, all among bits 0..25; a letter is free, so the unwrap does
\* not abort and the bucket index is in range.
C10_FilterBits ==
    /\ pc # "panic"
    /\ \A t \in TaskIds :
          \A d \in 1 .. Depth(t) :
              LET f == tasks[t].stack[d]
              IN  /\ f.filter \subseteq Letters
                  /\ Cardinality(f.filter)
                        = WordLen * f.i + (IF f.skipped THEN 1 ELSE 0)
                  /\ f.i \in 1 .. LastSlot
                  /\ next_free_letter(f.filter) = {f.letter}
                  /\ f.letter \in DOMAIN transformed_words

\* a call for the last slot after the skip: 21 bits of the filter are set
C10_Witness ==
    \E t \in TaskIds :
        /\ Depth(t) > 0
        /\ Top(t).i = LastSlot
        /\ Top(t).skipped
        /\ Cardinality(Top(t).filter) = NumLetters - NumWords

==========================================================================
